---------------------------- MODULE Spec2Model ----------------------------
(***************************************************************************)
(* Rideshare simulation: the Vehicle Manager's drive loop and the          *)
(* callbacks the Ride Matcher invokes on it (src/src/Vehicle.cpp), the     *)
(* Vehicle setters (src/src/Vehicle.cpp, src/src/BasicIntersection.h) and  *)
(* the renderer loop (src/unnamed/part_000).  The Route Model, the A*      *)
(* planner, the Passenger Queue and the Ride Matcher are not among the     *)
(* sources; they follow sections 4.A, 4.B, 4.C and 4.E of the design.      *)
(*                                                                         *)
(* The drive loop and the matcher run in different threads and share the   *)
(* vehicles without a lock, so every statement of the drive loop and of    *)
(* the callbacks is one step, and the steps of the threads interleave.     *)
(* Coordinates are exact: the road of the model runs east-west (y = 0),    *)
(* where cos and sin of atan2 are +1/-1 and 0.                             *)
(***************************************************************************)
EXTENDS Integers, Sequences, FiniteSets, TLC

VARIABLES
    vehicles_,            \* VehicleManager::vehicles_ : sequence of Vehicle records
    distance_per_cycle_,  \* VehicleManager::distance_per_cycle_
    edges,                \* RouteModel: i \in edges <=> road between node i and i+1
    dpc,                  \* drive thread: position in VehicleManager::Drive
    di,                   \* drive thread: index of the for-loop in vehicles_
    passengers,           \* PassengerQueue: passenger id -> Passenger record
    pool,                 \* PassengerQueue: size of the passenger pool
    open_vehicles,        \* RideMatcher: FIFO of vehicle ids
    open_passengers,      \* RideMatcher: FIFO of passenger ids
    pending,              \* RideMatcher: vehicle id -> passenger id (0: none)
    arrivals,             \* RideMatcher: vehicle_arrived notifications not yet handled
    mpc,                  \* matcher thread: position in the callback it runs
    mv,                   \* matcher thread: vehicle id of the callback
    mp,                   \* matcher thread: passenger id of the callback
    rpc,                  \* renderer thread: position in BasicGraphics::Simulate
    stop_signal,          \* a stop signal has been sent to the tasks
    track,                \* positions after each IncrementalMove (motion scenario only)
    idCnt_,               \* the id counter read and incremented by GenerateNew
    mtx_                  \* the output mutex: "free", or "drive" while the drive thread holds it

vars == <<vehicles_, distance_per_cycle_, edges, dpc, di, passengers, pool,
          open_vehicles, open_passengers, pending, arrivals, mpc, mv, mp,
          rpc, stop_signal, track, idCnt_, mtx_>>

vmvars == <<vehicles_, distance_per_cycle_, dpc, di>>
mapvars == <<edges>>
pqvars == <<passengers, pool>>
rmvars == <<open_vehicles, open_passengers, pending, arrivals, mpc, mv, mp>>
auxvars == <<rpc, stop_signal, track, idCnt_, mtx_>>

(***************************************************************************)
(* Sizes                                                                   *)
(***************************************************************************)
MAX_OBJECTS == 2
MaxPassengers == 1
MaxFailures == 2
MaxStep == 3
MaxCoord == 10
MaxTrack == 5
\* distance_per_cycle_ of the main model: two drive ticks per road segment.
DISTANCE_PER_CYCLE == 3

\* Longitudes of the road nodes, west to east; node i is at <<NodeX[i], 0>>.
NodeX == <<0, 4>>
Nodes == DOMAIN NodeX
NodePos(n) == <<NodeX[n], 0>>

VehicleState == {"no_passenger_requested", "no_passenger_queued",
                 "passenger_queued", "driving_passenger", "waiting"}

Sign(i) == IF i < 0 THEN -1 ELSE IF i > 0 THEN 1 ELSE 0

(***************************************************************************)
(* Route Model (design 4.A)                                                *)
(***************************************************************************)
\* Squared Euclidean distance of two coordinates.
DistSq(a, b) == (a[1] - b[1]) * (a[1] - b[1]) + (a[2] - b[2]) * (a[2] - b[2])

\* Every road graph of the model: the connected road, and the road with its
\* easternmost segment missing (the easternmost node cut off).
ConnectedRoad == 1 .. (Len(NodeX) - 1)
RoadGraphs == {ConnectedRoad, 1 .. (Len(NodeX) - 2)}

\* random_position(): any coordinate within the bounds of the map.
GetRandomMapPosition == {<<x, 0>> : x \in NodeX[1] .. NodeX[Len(NodeX)]}

\* closest_node(c): minimum Euclidean distance, ties broken by lowest index.
FindClosestNode(c) ==
    CHOOSE n \in Nodes : \A m \in Nodes :
        \/ DistSq(c, NodePos(n)) < DistSq(c, NodePos(m))
        \/ DistSq(c, NodePos(n)) = DistSq(c, NodePos(m)) /\ n <= m

(***************************************************************************)
(* Route Planner (design 4.B): the node path from the node snapped from    *)
(* `from` to the node snapped from `to`, excluding the start and including *)
(* the goal; empty when the goal cannot be reached.                        *)
(***************************************************************************)
RoutePath(from, to, roads) ==
    LET s == FindClosestNode(from)
        g == FindClosestNode(to)
    IN  IF s = g THEN <<NodePos(g)>>
        ELSE IF s < g
             THEN IF \A i \in s .. (g - 1) : i \in roads
                  THEN [k \in 1 .. (g - s) |-> NodePos(s + k)]
                  ELSE <<>>
             ELSE IF \A i \in g .. (s - 1) : i \in roads
                  THEN [k \in 1 .. (s - g) |-> NodePos(s - k)]
                  ELSE <<>>

\* RoutePlanner::AStarSearch(vehicle): writes the path, index back to 0.
AStarSearch(veh, roads) ==
    [veh EXCEPT !.path = RoutePath(veh.position, veh.destination, roads),
                !.path_index = 0]

(***************************************************************************)
(* Vehicle                                                                 *)
(***************************************************************************)
ResetPathAndIndex(veh) == [veh EXCEPT !.path = <<>>, !.path_index = 0]

SetDestination(veh, c) == ResetPathAndIndex([veh EXCEPT !.destination = c])

\* Vehicle::SetPassenger: the passenger's destination becomes the vehicle's.
SetPassenger(veh, p, pdest) == [veh EXCEPT !.passenger = p, !.destination = pdest]

SetPosition(veh, c) == [veh EXCEPT !.position = c]

\* The half of Vehicle::SetPosition that moves the carried passenger.
CarryPassenger(ps, veh, c) ==
    IF veh.passenger # 0
    THEN [ps EXCEPT ![veh.passenger].position = c]
    ELSE ps

SetState(veh, s) == [veh EXCEPT !.state = s]

IncrementPathIndex(veh) == [veh EXCEPT !.path_index = @ + 1]

\* Faulty variant: the drop-off forgets to clear the failures.
VehicleDropOffPassenger_KeepFailures(veh) == [veh EXCEPT !.passenger = 0]
VehicleDropOffPassenger(veh) == [veh EXCEPT !.passenger = 0, !.failures = 0]


Vehicle(id, start, dest, fails) ==
    [id |-> id, position |-> start, destination |-> dest, path |-> <<>>,
     path_index |-> 0, passenger |-> 0, state |-> "no_passenger_requested",
     failures |-> fails]

(***************************************************************************)
(* Vehicle Manager: helpers                                                *)
(***************************************************************************)
\* ResetVehicleDestination(vehicle, random); r is the random map position.
ResetVehicleDestination(veh, random, r) ==
    LET destination == IF random THEN r ELSE veh.destination
        nearest_dest == FindClosestNode(destination)
    IN  ResetPathAndIndex(SetDestination(veh, NodePos(nearest_dest)))

\* Path().at(PathIndex()) throws std::out_of_range outside the path.
PathAtThrows(veh) == veh.path_index < 0 \/ veh.path_index >= Len(veh.path)

\* Faulty variant: the step is taken twice.
Intermediate_TwoSteps(pos, next_pos, step) ==
    <<pos[1] + 2 * step * Sign(next_pos[1] - pos[1]),
      pos[2] + 2 * step * Sign(next_pos[2] - pos[2])>>

\* pos + step * (cos(angle), sin(angle)) on an axis-parallel segment.
Intermediate(pos, next_pos, step) ==
    <<pos[1] + step * Sign(next_pos[1] - pos[1]),
      pos[2] + step * Sign(next_pos[2] - pos[2])>>

\* The position IncrementalMove gives the vehicle.
MovedPosition(veh, step) ==
    LET pos == veh.position
        next_pos == veh.path[veh.path_index + 1]
    IN  IF DistSq(pos, next_pos) <= step * step
        THEN next_pos
        ELSE Intermediate(pos, next_pos, step)

\* Faulty variant: the snap forgets to advance the path index.
IncrementalMove_NoIncrement(veh, step) ==
    LET pos == veh.position
        next_pos == veh.path[veh.path_index + 1]
    IN  IF DistSq(pos, next_pos) <= step * step
        THEN SetPosition(veh, next_pos)
        ELSE SetPosition(veh, Intermediate(pos, next_pos, step))

\* Faulty variant: a point at exactly one step is approached, not snapped to.
IncrementalMove_StrictlyCloser(veh, step) ==
    LET pos == veh.position
        next_pos == veh.path[veh.path_index + 1]
    IN  IF DistSq(pos, next_pos) < step * step
        THEN IncrementPathIndex(SetPosition(veh, next_pos))
        ELSE SetPosition(veh, Intermediate(pos, next_pos, step))

IncrementalMove(veh, step) ==
    LET pos == veh.position
        next_pos == veh.path[veh.path_index + 1]
    IN  IF DistSq(pos, next_pos) <= step * step
        THEN IncrementPathIndex(SetPosition(veh, next_pos))
        ELSE SetPosition(veh, Intermediate(pos, next_pos, step))

Alive == dpc # "terminated"

\* Vehicle ids are indices of vehicles_ (vehicles_.at(id)), counted from 0.
\* Faulty variant: the callback looks the vehicle up one place too far.
VehicleIndex_OffByOne(id) == IF id + 2 <= Len(vehicles_) THEN id + 2 ELSE 1
VehicleIndex(id) == id + 1
At(id) == vehicles_[VehicleIndex(id)]
Put(i, veh) == [vehicles_ EXCEPT ![i] = veh]

\* `continue`, or the end of the body of the for-loop.
NextVehicle ==
    IF di < Len(vehicles_)
    THEN dpc' = "route" /\ di' = di + 1
    ELSE dpc' = "sleep" /\ di' = 1

(***************************************************************************)
(* Vehicle Manager: the drive loop, one action per statement               *)
(***************************************************************************)
\* Variant with a running flag tested at the top of each iteration.
DriveSleep_ChecksRunning ==
    /\ dpc = "sleep"
    /\ ~stop_signal
    /\ dpc' = "route"
    /\ di' = 1
    /\ UNCHANGED <<vehicles_, distance_per_cycle_, mapvars, pqvars, rmvars, auxvars>>

\* while (true) { sleep_for(10ms); for (auto &vehicle : vehicles_) ...
DriveSleep ==
    /\ dpc = "sleep"
    /\ dpc' = "route"
    /\ di' = 1
    /\ UNCHANGED <<vehicles_, distance_per_cycle_, mapvars, pqvars, rmvars, auxvars>>

\* Get a route if none yet given; randomise the destination if there is none.
DriveRoute ==
    /\ dpc = "route"
    /\ LET veh == vehicles_[di]
           routed == IF veh.path = <<>> THEN AStarSearch(veh, edges) ELSE veh
       IN  IF routed.path = <<>>
           THEN /\ \E r \in GetRandomMapPosition :
                       vehicles_' = Put(di, ResetVehicleDestination(routed, TRUE, r))
                /\ NextVehicle
           ELSE /\ vehicles_' = Put(di, routed)
                /\ dpc' = "request"
                /\ di' = di
    /\ UNCHANGED <<distance_per_cycle_, mapvars, pqvars, rmvars, auxvars>>

\* VehicleManager::RequestPassenger, statement by statement: the state first,
\* then the call into the matcher, then the log record under the output mutex.
\* Faulty variant: the state is left for later.
RequestPassenger1_StateLater(veh) == veh
RequestPassenger1(veh) == SetState(veh, "no_passenger_queued")

\* RideMatcher::VehicleRequestsPassenger: an id already queued is ignored.
VehicleRequestsPassenger(queue, id) ==
    IF \E k \in DOMAIN queue : queue[k] = id THEN queue ELSE Append(queue, id)

\* std::lock_guard / std::unique_lock on mtx_ by the drive thread, and the
\* release at lck.unlock() or at the end of the scope.
Lock(m) == "drive"
\* Faulty variant: the mutex is kept.
Unlock_Kept(m) == m
Unlock(m) == "free"

DriveRequest ==
    /\ dpc = "request"
    /\ IF vehicles_[di].state = "no_passenger_requested"
       THEN /\ vehicles_' = Put(di, RequestPassenger1(vehicles_[di]))
            /\ dpc' = "req_send"
       ELSE /\ UNCHANGED vehicles_
            /\ dpc' = "gate"
    /\ UNCHANGED <<di, distance_per_cycle_, mapvars, pqvars, rmvars, auxvars>>

DriveRequestSend ==
    /\ dpc = "req_send"
    /\ open_vehicles' = VehicleRequestsPassenger(open_vehicles, vehicles_[di].id)
    /\ dpc' = "req_lock"
    /\ UNCHANGED <<vehicles_, di, distance_per_cycle_, mapvars, pqvars, auxvars,
                   open_passengers, pending, arrivals, mpc, mv, mp>>

DriveRequestLock ==
    /\ dpc = "req_lock"
    /\ mtx_ = "free"
    /\ mtx_' = Lock(mtx_)
    /\ dpc' = "req_unlock"
    /\ UNCHANGED <<vehicles_, di, distance_per_cycle_, mapvars, pqvars, rmvars,
                   rpc, stop_signal, track, idCnt_>>

DriveRequestUnlock ==
    /\ dpc = "req_unlock"
    /\ mtx_' = Unlock(mtx_)
    /\ dpc' = "gate"
    /\ UNCHANGED <<vehicles_, di, distance_per_cycle_, mapvars, pqvars, rmvars,
                   rpc, stop_signal, track, idCnt_>>

\* if (vehicle->State() == VehicleState::waiting) continue;
\* Faulty variant: the gate tests for the state before waiting.
Gated_WhenQueued(veh) == veh.state = "passenger_queued"
Gated(veh) == veh.state = "waiting"

\* Drive to destination or wait, depending on state.
DriveMove ==
    /\ dpc = "gate"
    /\ LET veh == vehicles_[di]
       IN  IF Gated(veh)
           THEN NextVehicle /\ UNCHANGED <<vehicles_, passengers>>
           ELSE IF PathAtThrows(veh)
                THEN dpc' = "terminated" /\ UNCHANGED <<di, vehicles_, passengers>>
                ELSE /\ vehicles_' = Put(di, IncrementalMove(veh, distance_per_cycle_))
                     /\ passengers' = CarryPassenger(passengers, veh,
                                          MovedPosition(veh, distance_per_cycle_))
                     /\ dpc' = "arrive"
                     /\ di' = di
    /\ UNCHANGED <<distance_per_cycle_, mapvars, pool, rmvars, auxvars>>

\* Check if at destination: the branch taken.
ArrivalBranch(veh) ==
    IF veh.position # veh.destination THEN "none"
    ELSE IF veh.state = "no_passenger_queued" THEN "arr_reset"
    ELSE IF veh.state = "passenger_queued" THEN "arr_notify"
    ELSE IF veh.state = "driving_passenger" THEN "drop_lock"
    ELSE "none"

DriveArrive ==
    /\ dpc = "arrive"
    /\ IF ArrivalBranch(vehicles_[di]) = "none"
       THEN NextVehicle
       ELSE dpc' = ArrivalBranch(vehicles_[di]) /\ di' = di
    /\ UNCHANGED <<vehicles_, distance_per_cycle_, mapvars, pqvars, rmvars, auxvars>>

\* no_passenger_queued at its destination: find a new random destination.
DriveNewDestination ==
    /\ dpc = "arr_reset"
    /\ \E r \in GetRandomMapPosition :
           vehicles_' = Put(di, ResetVehicleDestination(vehicles_[di], TRUE, r))
    /\ NextVehicle
    /\ UNCHANGED <<distance_per_cycle_, mapvars, pqvars, rmvars, auxvars>>

\* VehicleManager::ArrivedAtPassenger: waiting, then vehicle_arrived(id).
ArrivedAtPassenger(veh) ==
    /\ vehicles_' = Put(di, SetState(veh, "waiting"))
    /\ arrivals' = Append(arrivals, veh.id)

DriveArrived ==
    /\ dpc = "arr_notify"
    /\ ArrivedAtPassenger(vehicles_[di])
    /\ NextVehicle
    /\ UNCHANGED <<distance_per_cycle_, mapvars, pqvars, auxvars,
                   open_vehicles, open_passengers, pending, mpc, mv, mp>>

\* VehicleManager::DropOffPassenger, statement by statement.
DropOffPassenger1(veh) == VehicleDropOffPassenger(veh)
DropOffPassenger2(veh, r) == ResetVehicleDestination(veh, TRUE, r)
\* Faulty variant: the drop-off leaves the vehicle queued.
DropOffPassenger3_Queued(veh) == SetState(veh, "no_passenger_queued")
DropOffPassenger3(veh) == SetState(veh, "no_passenger_requested")

DriveDropOffLock ==
    /\ dpc = "drop_lock"
    /\ mtx_ = "free"
    /\ mtx_' = Lock(mtx_)
    /\ dpc' = "drop_unlock"
    /\ UNCHANGED <<vehicles_, di, distance_per_cycle_, mapvars, pqvars, rmvars,
                   rpc, stop_signal, track, idCnt_>>

DriveDropOffUnlock ==
    /\ dpc = "drop_unlock"
    /\ mtx_' = Unlock(mtx_)
    /\ dpc' = "drop1"
    /\ UNCHANGED <<vehicles_, di, distance_per_cycle_, mapvars, pqvars, rmvars,
                   rpc, stop_signal, track, idCnt_>>

DriveDropOff1 ==
    /\ dpc = "drop1"
    /\ vehicles_' = Put(di, DropOffPassenger1(vehicles_[di]))
    /\ passengers' = IF vehicles_[di].passenger # 0
                     THEN [passengers EXCEPT ![vehicles_[di].passenger].status = "destroyed"]
                     ELSE passengers
    /\ dpc' = "drop2"
    /\ UNCHANGED <<di, distance_per_cycle_, mapvars, pool, rmvars, auxvars>>

DriveDropOff2 ==
    /\ dpc = "drop2"
    /\ \E r \in GetRandomMapPosition :
           vehicles_' = Put(di, DropOffPassenger2(vehicles_[di], r))
    /\ dpc' = "drop3"
    /\ UNCHANGED <<di, distance_per_cycle_, mapvars, pqvars, rmvars, auxvars>>

DriveDropOff3 ==
    /\ dpc = "drop3"
    /\ vehicles_' = Put(di, DropOffPassenger3(vehicles_[di]))
    /\ NextVehicle
    /\ UNCHANGED <<distance_per_cycle_, mapvars, pqvars, rmvars, auxvars>>

(***************************************************************************)
(* Passenger Queue (design 4.C)                                            *)
(***************************************************************************)
NoPassenger ==
    [start |-> <<0, 0>>, dest |-> <<0, 0>>, position |-> <<0, 0>>, status |-> "none"]

Passenger(start, dest) ==
    [start |-> start, dest |-> dest, position |-> start, status |-> "new"]

\* The passenger the queue's loop handles next: the lowest id of a status.
Lowest(status) ==
    IF \E p \in 1 .. pool : passengers[p].status = status
    THEN CHOOSE p \in 1 .. pool :
             /\ passengers[p].status = status
             /\ \A q \in 1 .. pool : passengers[q].status = status => p <= q
    ELSE 0

\* A passenger at a random map position with a random destination, both
\* snapped to the nearest node.
PassengerGenerate ==
    /\ Alive
    /\ Lowest("none") # 0
    /\ \E s, d \in GetRandomMapPosition :
           passengers' = [passengers EXCEPT ![Lowest("none")] =
                              Passenger(NodePos(FindClosestNode(s)),
                                        NodePos(FindClosestNode(d)))]
    /\ UNCHANGED <<vmvars, mapvars, pool, rmvars, auxvars>>

\* request_ride(id): passenger_requests_ride at the matcher, no duplicates.
PassengerRequestsRide ==
    /\ Alive
    /\ Lowest("new") # 0
    /\ passengers' = [passengers EXCEPT ![Lowest("new")].status = "requested"]
    /\ open_passengers' =
           IF \E k \in DOMAIN open_passengers : open_passengers[k] = Lowest("new")
           THEN open_passengers
           ELSE Append(open_passengers, Lowest("new"))
    /\ UNCHANGED <<vmvars, mapvars, pool, auxvars,
                   open_vehicles, pending, arrivals, mpc, mv, mp>>

(***************************************************************************)
(* Ride Matcher (design 4.E) and the callbacks it runs on the Vehicle      *)
(* Manager, statement by statement                                         *)
(***************************************************************************)
\* FIFO matching: the heads of both queues are paired and leave the queues;
\* the pair is recorded until vehicle_arrived consumes it.
MatchRides ==
    /\ Alive
    /\ mpc = "idle"
    /\ open_vehicles # <<>>
    /\ open_passengers # <<>>
    /\ mv' = Head(open_vehicles)
    /\ mp' = Head(open_passengers)
    /\ open_vehicles' = Tail(open_vehicles)
    /\ open_passengers' = Tail(open_passengers)
    /\ pending' = [pending EXCEPT ![Head(open_vehicles)] = Head(open_passengers)]
    /\ mpc' = "assign1"
    /\ UNCHANGED <<vmvars, mapvars, pqvars, arrivals, auxvars>>

\* VehicleManager::AssignPassenger(id, position)
AssignPassenger1(veh, position) == SetDestination(veh, position)
AssignPassenger2(veh) == ResetVehicleDestination(veh, FALSE, veh.destination)
AssignPassenger3(veh) == SetState(veh, "passenger_queued")

AssignSetDestination ==
    /\ Alive
    /\ mpc = "assign1"
    /\ vehicles_' = Put(VehicleIndex(mv), AssignPassenger1(At(mv), passengers[mp].start))
    /\ mpc' = "assign2"
    /\ UNCHANGED <<distance_per_cycle_, dpc, di, mapvars, pqvars, auxvars,
                   open_vehicles, open_passengers, pending, arrivals, mv, mp>>

AssignResetDestination ==
    /\ Alive
    /\ mpc = "assign2"
    /\ vehicles_' = Put(VehicleIndex(mv), AssignPassenger2(At(mv)))
    /\ mpc' = "assign3"
    /\ UNCHANGED <<distance_per_cycle_, dpc, di, mapvars, pqvars, auxvars,
                   open_vehicles, open_passengers, pending, arrivals, mv, mp>>

AssignSetState ==
    /\ Alive
    /\ mpc = "assign3"
    /\ vehicles_' = Put(VehicleIndex(mv), AssignPassenger3(At(mv)))
    /\ mpc' = "idle"
    /\ UNCHANGED <<distance_per_cycle_, dpc, di, mapvars, pqvars, auxvars,
                   open_vehicles, open_passengers, pending, arrivals, mv, mp>>

\* vehicle_arrived(id): the passenger recorded for the vehicle is handed off
\* by the Passenger Queue and forwarded to passenger_into_vehicle.
VehicleHasArrived ==
    /\ Alive
    /\ mpc = "idle"
    /\ arrivals # <<>>
    /\ pending[Head(arrivals)] # 0
    /\ mv' = Head(arrivals)
    /\ mp' = pending[Head(arrivals)]
    /\ arrivals' = Tail(arrivals)
    /\ pending' = [pending EXCEPT ![Head(arrivals)] = 0]
    /\ passengers' = [passengers EXCEPT ![pending[Head(arrivals)]].status = "in_transit"]
    /\ mpc' = "into1"
    /\ UNCHANGED <<vmvars, mapvars, pool, open_vehicles, open_passengers, auxvars>>

\* VehicleManager::PassengerIntoVehicle(id, passenger)
PassengerIntoVehicle1(veh, p, pdest) == SetPassenger(veh, p, pdest)
PassengerIntoVehicle2(veh) == ResetVehicleDestination(veh, FALSE, veh.destination)
\* Faulty variant: the state is not updated when the passenger is in.
PassengerIntoVehicle3_NoState(veh) == veh
PassengerIntoVehicle3(veh) == SetState(veh, "driving_passenger")

IntoSetPassenger ==
    /\ Alive
    /\ mpc = "into1"
    /\ vehicles_' = Put(VehicleIndex(mv), PassengerIntoVehicle1(At(mv), mp, passengers[mp].dest))
    /\ mpc' = "into2"
    /\ UNCHANGED <<distance_per_cycle_, dpc, di, mapvars, pqvars, auxvars,
                   open_vehicles, open_passengers, pending, arrivals, mv, mp>>

IntoResetDestination ==
    /\ Alive
    /\ mpc = "into2"
    /\ vehicles_' = Put(VehicleIndex(mv), PassengerIntoVehicle2(At(mv)))
    /\ mpc' = "into3"
    /\ UNCHANGED <<distance_per_cycle_, dpc, di, mapvars, pqvars, auxvars,
                   open_vehicles, open_passengers, pending, arrivals, mv, mp>>

IntoSetState ==
    /\ Alive
    /\ mpc = "into3"
    /\ vehicles_' = Put(VehicleIndex(mv), PassengerIntoVehicle3(At(mv)))
    /\ mpc' = "idle"
    /\ UNCHANGED <<distance_per_cycle_, dpc, di, mapvars, pqvars, auxvars,
                   open_vehicles, open_passengers, pending, arrivals, mv, mp>>

(***************************************************************************)
(* Renderer loop and the stop signal                                       *)
(***************************************************************************)
\* BasicGraphics::Simulate: while (true) { sleep_for(10000ms); ...
RenderSleep ==
    /\ Alive
    /\ rpc = "sleep"
    /\ rpc' = "draw"
    /\ UNCHANGED <<vmvars, mapvars, pqvars, rmvars, stop_signal, track, idCnt_, mtx_>>

\* ... DrawSimulation(); }
RenderDraw ==
    /\ Alive
    /\ rpc = "draw"
    /\ rpc' = "sleep"
    /\ UNCHANGED <<vmvars, mapvars, pqvars, rmvars, stop_signal, track, idCnt_, mtx_>>

\* The stop signal of the design's shutdown (section 5).
StopSignal ==
    /\ Alive
    /\ ~stop_signal
    /\ stop_signal' = TRUE
    /\ UNCHANGED <<vmvars, mapvars, pqvars, rmvars, rpc, track, idCnt_, mtx_>>

(***************************************************************************)
(* Specifications                                                          *)
(***************************************************************************)
InitRest ==
    /\ distance_per_cycle_ = DISTANCE_PER_CYCLE
    /\ dpc = "sleep"
    /\ di = 1
    /\ passengers = [p \in 1 .. MaxPassengers |-> NoPassenger]
    /\ open_vehicles = <<>>
    /\ open_passengers = <<>>
    /\ pending = [v \in 0 .. (MAX_OBJECTS - 1) |-> 0]
    /\ arrivals = <<>>
    /\ mpc = "idle"
    /\ mv = 0
    /\ mp = 0
    /\ rpc = "sleep"
    /\ stop_signal = FALSE
    /\ track = <<>>
    /\ idCnt_ = Len(vehicles_)
    /\ mtx_ = "free"

\* VehicleManager::GenerateNew, MAX_OBJECTS times: random start and
\* destination, both snapped to the nearest node; ids counted from 0.
GenerateNew(id, start, destination, fails) ==
    Vehicle(id, NodePos(FindClosestNode(start)),
            NodePos(FindClosestNode(destination)), fails)

Init ==
    /\ \E st, ds \in [1 .. MAX_OBJECTS -> GetRandomMapPosition] :
           vehicles_ = [i \in 1 .. MAX_OBJECTS |-> GenerateNew(i - 1, st[i], ds[i], 0)]
    /\ edges \in RoadGraphs
    /\ pool = MaxPassengers
    /\ InitRest

DriveStep ==
    \/ DriveSleep
    \/ DriveRoute
    \/ DriveRequest
    \/ DriveRequestSend
    \/ DriveRequestLock
    \/ DriveRequestUnlock
    \/ DriveMove
    \/ DriveArrive
    \/ DriveNewDestination
    \/ DriveArrived
    \/ DriveDropOffLock
    \/ DriveDropOffUnlock
    \/ DriveDropOff1
    \/ DriveDropOff2
    \/ DriveDropOff3

MatcherStep ==
    \/ MatchRides
    \/ AssignSetDestination
    \/ AssignResetDestination
    \/ AssignSetState
    \/ VehicleHasArrived
    \/ IntoSetPassenger
    \/ IntoResetDestination
    \/ IntoSetState

QueueStep ==
    \/ PassengerGenerate
    \/ PassengerRequestsRide

Next == DriveStep \/ MatcherStep \/ QueueStep

Spec == Init /\ [][Next]_vars

(***************************************************************************)
(* Single match (design 8, scenario 1): one vehicle, one passenger, a      *)
(* connected road.  failures is whatever earlier rides left.               *)
(***************************************************************************)
SingleInit ==
    /\ \E st, ds \in GetRandomMapPosition, f \in 0 .. MaxFailures :
           vehicles_ = <<GenerateNew(0, st, ds, f)>>
    /\ edges = ConnectedRoad
    /\ pool = 1
    /\ InitRest

SingleSpec == SingleInit /\ [][Next]_vars

\* Every thread that can take a step eventually takes one.
Fairness ==
    /\ WF_vars(DriveStep)
    /\ WF_vars(MatcherStep)
    /\ WF_vars(QueueStep)

SingleFairSpec == SingleInit /\ [][Next]_vars /\ Fairness

(***************************************************************************)
(* Shutdown: the single match with the renderer thread and a stop signal.  *)
(***************************************************************************)
RenderStep == RenderSleep \/ RenderDraw

ShutdownNext == Next \/ RenderStep \/ StopSignal

ShutdownSpec == SingleInit /\ [][ShutdownNext]_vars

(***************************************************************************)
(* Incremental motion (design 8, scenario 4): IncrementalMove applied to   *)
(* a vehicle on a given path, tick after tick.                             *)
(***************************************************************************)
MoveCoords == {<<x, 0>> : x \in 0 .. MaxCoord}
MovePathCoords == {c \in MoveCoords : c[1] % 5 = 0}
MovePaths == {<<a>> : a \in MovePathCoords}
                 \cup {<<a, b>> : a \in MovePathCoords, b \in MovePathCoords}

MoveInit ==
    /\ \E start \in MoveCoords, path \in MovePaths :
           /\ vehicles_ = <<[Vehicle(0, start, path[Len(path)], 0) EXCEPT !.path = path]>>
           /\ track = <<start>>
    /\ distance_per_cycle_ \in 1 .. MaxStep
    /\ edges = ConnectedRoad
    /\ pool = 0
    /\ dpc = "gate"
    /\ di = 1
    /\ passengers = [p \in 1 .. MaxPassengers |-> NoPassenger]
    /\ open_vehicles = <<>>
    /\ open_passengers = <<>>
    /\ pending = [v \in 0 .. (MAX_OBJECTS - 1) |-> 0]
    /\ arrivals = <<>>
    /\ mpc = "idle"
    /\ mv = 0
    /\ mp = 0
    /\ rpc = "sleep"
    /\ stop_signal = FALSE
    /\ idCnt_ = 1
    /\ mtx_ = "free"

\* One tick of motion: IncrementalMove(vehicle), the position recorded.
MoveTick ==
    /\ Len(track) <= MaxTrack
    /\ ~PathAtThrows(vehicles_[1])
    /\ vehicles_' = Put(1, IncrementalMove(vehicles_[1], distance_per_cycle_))
    /\ track' = Append(track, MovedPosition(vehicles_[1], distance_per_cycle_))
    /\ UNCHANGED <<distance_per_cycle_, dpc, di, mapvars, pqvars, rmvars, rpc, stop_signal,
                   idCnt_, mtx_>>

MoveSpec == MoveInit /\ [][MoveTick]_vars

(***************************************************************************)
(* Construction: GenerateNew called again and again on an empty manager.   *)
(* The id counter is process-wide (design 9): other objects draw ids from  *)
(* it between two calls.                                                   *)
(***************************************************************************)
MaxGenerate == 3
MaxIds == 5

\* Faulty variant: the counter is read and not incremented.
NextId_Stuck(cnt) == cnt
\* vehicle->SetId(idCnt_++): the counter after the call.
NextId(cnt) == cnt + 1

GenInit ==
    /\ vehicles_ = <<>>
    /\ edges \in RoadGraphs
    /\ pool = MaxPassengers
    /\ InitRest

\* One call of VehicleManager::GenerateNew: the vehicle gets the counter's
\* value and is appended; the log record is written under the output mutex,
\* which is released when the call returns.
GenerateNewCall ==
    /\ Len(vehicles_) < MaxGenerate
    /\ idCnt_ < MaxIds
    /\ mtx_ = "free"
    /\ \E start, destination \in GetRandomMapPosition :
           vehicles_' = Append(vehicles_, GenerateNew(idCnt_, start, destination, 0))
    /\ idCnt_' = NextId(idCnt_)
    /\ mtx_' = Unlock(Lock(mtx_))
    /\ UNCHANGED <<distance_per_cycle_, dpc, di, mapvars, pqvars, rmvars,
                   rpc, stop_signal, track>>

\* Another object of the process (a passenger) takes the next id.
OtherObjectTakesId ==
    /\ idCnt_ < MaxIds
    /\ idCnt_' = NextId(idCnt_)
    /\ UNCHANGED <<vmvars, mapvars, pqvars, rmvars, rpc, stop_signal, track, mtx_>>

GenNext == GenerateNewCall \/ OtherObjectTakesId

GenSpec == GenInit /\ [][GenNext]_vars

(***************************************************************************)
(* Properties                                                              *)
(***************************************************************************)
VehicleIds == {i - 1 : i \in DOMAIN vehicles_}

\* PassengerIntoVehicle(id) has made its first write and not yet its last.
IntoInProgress(id) == mv = id /\ mpc \in {"into2", "into3"}
\* AssignPassenger(id) has made its first write and not yet its last.
AssignInProgress(id) == mv = id /\ mpc \in {"assign2", "assign3"}
\* DropOffPassenger has made its first write on vehicles_[i] and not yet its last.
DropInProgress(i) == di = i /\ dpc \in {"drop2", "drop3"}

HoldsIffDriving(veh) == (veh.passenger # 0) <=> (veh.state = "driving_passenger")

\* C1 (as stated): in every reachable state, the states between the
\* statements of PassengerIntoVehicle and DropOffPassenger included, every
\* vehicle holds a passenger if and only if its state is driving_passenger.
C1_PassengerIffDrivingEverywhere ==
    \A i \in DOMAIN vehicles_ : HoldsIffDriving(vehicles_[i])

\* C1 (amended): a vehicle holds a passenger if and only if its state is
\* driving_passenger, in every state in which neither PassengerIntoVehicle
\* nor DropOffPassenger is between its first and its last write on it.
C1_PassengerIffDrivingAtRest ==
    \A i \in DOMAIN vehicles_ :
        (~IntoInProgress(i - 1) /\ ~DropInProgress(i)) => HoldsIffDriving(vehicles_[i])

\* C1 witness: a vehicle carries its passenger, no operation in progress.
C1_Witness ==
    \E i \in DOMAIN vehicles_ :
        /\ vehicles_[i].passenger # 0
        /\ vehicles_[i].state = "driving_passenger"
        /\ mpc = "idle"
        /\ dpc = "sleep"

\* The drive loop is at a statement of its body for vehicle id.
DriveAt(id) == di = VehicleIndex(id) /\ dpc \notin {"sleep", "terminated"}

\* C2: assign_passenger and passenger_into_vehicle are atomic with respect
\* to the drive loop: while a callback is between its first and its last
\* write on a vehicle, the drive loop takes no step on that vehicle.
C2_CallbacksAtomic ==
    [][\A id \in VehicleIds :
          ((AssignInProgress(id) \/ IntoInProgress(id)) /\ DriveAt(id))
              => (dpc' = dpc /\ di' = di)]_vars

Transitions ==
    {<<"no_passenger_requested", "no_passenger_queued">>,
     <<"no_passenger_queued", "passenger_queued">>,
     <<"no_passenger_queued", "no_passenger_requested">>,
     <<"passenger_queued", "waiting">>,
     <<"waiting", "driving_passenger">>,
     <<"driving_passenger", "no_passenger_requested">>}

\* Each event finds the vehicle in the state the event before it left:
\* assign after request, arrive after assign, transfer after arrive,
\* drop-off after transfer.
EventsInOrder ==
    /\ mpc = "assign3" => At(mv).state = "no_passenger_queued"
    /\ dpc = "arr_notify" => vehicles_[di].state = "passenger_queued"
    /\ mpc = "into3" => At(mv).state = "waiting"
    /\ dpc = "drop3" => vehicles_[di].state = "driving_passenger"

\* C3: every change of a vehicle's state is a transition of the state
\* machine, so the events of one vehicle occur in the order request, assign,
\* arrive, transfer, drop-off.
C3_StateMachine ==
    /\ []EventsInOrder
    /\ [][\A i \in DOMAIN vehicles_ :
             vehicles_'[i].state # vehicles_[i].state
                 => <<vehicles_[i].state, vehicles_'[i].state>> \in Transitions]_vars

\* C3 witness: a vehicle back in no_passenger_requested after a whole ride.
C3_Witness ==
    \E i \in DOMAIN vehicles_, p \in 1 .. pool :
        /\ passengers[p].status = "destroyed"
        /\ vehicles_[i].state = "no_passenger_requested"
        /\ dpc = "sleep"

\* The drive loop takes a step.
DriveSteps == <<dpc, di>>' # <<dpc, di>>

\* The routing step is about to find no route for vehicles_[i].
EmptyRouteAt(i) ==
    /\ dpc = "route"
    /\ di = i
    /\ vehicles_[i].path = <<>>
    /\ RoutePath(vehicles_[i].position, vehicles_[i].destination, edges) = <<>>

\* C4: a passenger_queued vehicle that gets an empty route to its pickup
\* receives match_failed (failures incremented, state back to
\* no_passenger_requested) and its passenger is back in the matcher's queue.
C4_MatchFailedOnEmptyRoute ==
    [][\A i \in DOMAIN vehicles_ :
          (EmptyRouteAt(i) /\ vehicles_[i].state = "passenger_queued" /\ DriveSteps)
              => /\ vehicles_'[i].failures = vehicles_[i].failures + 1
                 /\ vehicles_'[i].state = "no_passenger_requested"
                 /\ \E k \in DOMAIN open_passengers' :
                        open_passengers'[k] = pending[vehicles_[i].id]]_vars

\* C5: an empty route for a vehicle that carries a passenger does not
\* randomise the destination; the state is reset to no_passenger_requested
\* and the passenger is back in the passenger queue.
C5_CarriedPassengerRequeued ==
    [][\A i \in DOMAIN vehicles_ :
          (EmptyRouteAt(i) /\ vehicles_[i].state = "driving_passenger"
                           /\ vehicles_[i].passenger # 0 /\ DriveSteps)
              => /\ vehicles_'[i].destination = vehicles_[i].destination
                 /\ vehicles_'[i].state = "no_passenger_requested"
                 /\ vehicles_'[i].passenger = 0
                 /\ passengers'[vehicles_[i].passenger].status \in {"new", "requested"}]_vars

\* The vehicle waits only at the pickup N_p and drops off only at N_d.
C6_OnlyAtPickupAndDestination ==
    /\ vehicles_[1].state = "waiting"
           => vehicles_[1].position = passengers[1].start
    /\ (dpc \in {"drop_lock", "drop_unlock", "drop1", "drop2", "drop3"} /\ di = 1)
           => vehicles_[1].position = passengers[1].dest

\* C6: single match: the vehicle eventually reaches the pickup N_p and
\* becomes waiting (there and nowhere else), then carries the passenger,
\* then has dropped it off at N_d and is in state no_passenger_requested.
C6_SingleMatch ==
    /\ []C6_OnlyAtPickupAndDestination
    /\ <>(/\ vehicles_[1].state = "waiting"
          /\ passengers[1].status = "requested"
          /\ vehicles_[1].position = passengers[1].start
          /\ <>(/\ vehicles_[1].state = "driving_passenger"
                /\ vehicles_[1].passenger = 1
                /\ <>(/\ passengers[1].status = "destroyed"
                      /\ vehicles_[1].state = "no_passenger_requested"
                      /\ vehicles_[1].passenger = 0
                      /\ vehicles_[1].position = passengers[1].dest)))

NodePositions == {NodePos(n) : n \in Nodes}

\* C7: after the drop-off the vehicle holds no passenger, failures = 0
\* whatever it was, the path is empty with index 0, the destination is a
\* node of the map and the state is no_passenger_requested.
C7_DropOff ==
    [][\A i \in DOMAIN vehicles_ :
          (dpc = "drop3" /\ di = i /\ DriveSteps)
              => /\ vehicles_'[i].passenger = 0
                 /\ vehicles_'[i].failures = 0
                 /\ vehicles_'[i].path = <<>>
                 /\ vehicles_'[i].path_index = 0
                 /\ vehicles_'[i].destination \in NodePositions
                 /\ vehicles_'[i].state = "no_passenger_requested"]_vars

\* C7 witness: the drop-off is done, the passenger destroyed.
C7_Witness ==
    /\ passengers[1].status = "destroyed"
    /\ vehicles_[1].state = "no_passenger_requested"
    /\ vehicles_[1].failures = 0
    /\ vehicles_[1].passenger = 0
    /\ vehicles_[1].path = <<>>

\* The motion scenario: path [(0,0),(10,0)], path index 0 at the start,
\* step 3, start at (0,0).
MotionScenario ==
    /\ vehicles_[1].path = << <<0, 0>>, <<10, 0>> >>
    /\ distance_per_cycle_ = 3
    /\ track[1] = <<0, 0>>

\* The same scenario with the path the planner gives (start excluded).
MotionScenarioFromPlanner ==
    /\ vehicles_[1].path = << <<10, 0>> >>
    /\ distance_per_cycle_ = 3
    /\ track[1] = <<0, 0>>

\* track = <<start>> \o positions, as far as the ticks have gone.
TrackFollows(positions) ==
    \A k \in 1 .. (Len(track) - 1) : k <= Len(positions) /\ track[k + 1] = positions[k]

\* C8 (as stated): the positions over successive ticks are (3,0), (6,0),
\* (9,0), (10,0) and the path index after the last of them is 1.
C8_MotionAsStated ==
    MotionScenario =>
        /\ TrackFollows(<< <<3, 0>>, <<6, 0>>, <<9, 0>>, <<10, 0>> >>)
        /\ Len(track) = 5 => vehicles_[1].path_index = 1

\* C8 (amended): with path [(0,0),(10,0)] the first tick snaps onto
\* path[0] = (0,0); the positions are (0,0), (3,0), (6,0), (9,0), (10,0) and
\* the path index after the last is 2.  With the path [(10,0)] they are
\* (3,0), (6,0), (9,0), (10,0) and the path index after the last is 1.
C8_Motion ==
    /\ MotionScenario =>
           /\ TrackFollows(<< <<0, 0>>, <<3, 0>>, <<6, 0>>, <<9, 0>>, <<10, 0>> >>)
           /\ Len(track) = 6 => vehicles_[1].path_index = 2
    /\ MotionScenarioFromPlanner =>
           /\ TrackFollows(<< <<3, 0>>, <<6, 0>>, <<9, 0>>, <<10, 0>> >>)
           /\ Len(track) = 5 => vehicles_[1].path_index = 1

\* C8 witness: the scenario has run to the end of its path.
C8_Witness ==
    /\ MotionScenario
    /\ Len(track) = 6
    /\ vehicles_[1].position = <<10, 0>>

AssignSteps == mpc \in {"assign1", "assign2", "assign3"} /\ mpc' # mpc

\* C10: duelling matches: of two queued vehicles the first requester gets
\* the only open passenger; the second stays queued in no_passenger_queued
\* and no step of the assignment touches it (its destination included).
C10_FirstRequesterMatched ==
    /\ [](\A k \in DOMAIN open_vehicles :
              /\ At(open_vehicles[k]).state = "no_passenger_queued"
              /\ pending[open_vehicles[k]] = 0)
    /\ [][(mpc = "idle" /\ mpc' = "assign1")
              => /\ mv' = Head(open_vehicles)
                 /\ pending'[mv'] = Head(open_passengers)
                 /\ open_vehicles' = Tail(open_vehicles)]_vars
    /\ [][AssignSteps
              => /\ \A i \in DOMAIN vehicles_ :
                        i # mv + 1 => vehicles_'[i] = vehicles_[i]
                 /\ mpc = "assign1" => vehicles_'[mv + 1].destination = passengers[mp].start
                 /\ mpc = "assign3" => vehicles_'[mv + 1].state = "passenger_queued"]_vars

\* C10 witness: vehicle 0 then vehicle 1 were queued, the only passenger
\* went to vehicle 0 and vehicle 1 is still queued.
C10_Witness ==
    /\ Len(vehicles_) = 2
    /\ mpc = "idle"
    /\ pending[0] # 0
    /\ vehicles_[1].state = "passenger_queued"
    /\ vehicles_[1].destination = passengers[pending[0]].start
    /\ open_vehicles = <<1>>
    /\ open_passengers = <<>>
    /\ vehicles_[2].state = "no_passenger_queued"
    /\ vehicles_[2].destination # passengers[pending[0]].start

\* C11: vehicle ids are unique and monotonically assigned: after any number
\* of GenerateNew calls no two vehicles share an id, and the id of each new
\* vehicle is strictly greater than every id assigned before it.
C11_IdsUniqueAndIncreasing ==
    /\ [](\A i, j \in DOMAIN vehicles_ :
              /\ i < j => vehicles_[i].id < vehicles_[j].id
              /\ vehicles_[i].id < idCnt_)
    /\ [][Len(vehicles_') = Len(vehicles_) + 1
             => /\ vehicles_'[Len(vehicles_')].id >= idCnt_
                /\ \A i \in DOMAIN vehicles_ :
                       /\ vehicles_'[i] = vehicles_[i]
                       /\ vehicles_'[Len(vehicles_')].id > vehicles_[i].id]_vars

\* C11 witness: three vehicles generated, ids drawn by others in between.
C11_Witness ==
    /\ Len(vehicles_) = 3
    /\ vehicles_[2].id > vehicles_[1].id + 1
    /\ vehicles_[3].id = vehicles_[2].id + 1

\* C12: in every drive tick, for every vehicle, the distance between its
\* position before and after the tick is at most the step, and it is 0 when
\* the vehicle is waiting: the position changes only in the move of the
\* tick, by at most the step, never for a waiting vehicle, and a tick comes
\* to each vehicle once.
C12_StepBounded ==
    [][/\ \A i \in DOMAIN vehicles_ :
              /\ DistSq(vehicles_[i].position, vehicles_'[i].position)
                     <= distance_per_cycle_ * distance_per_cycle_
              /\ vehicles_'[i].position # vehicles_[i].position
                     => /\ dpc = "gate" /\ dpc' = "arrive" /\ di = i /\ di' = i
                        /\ vehicles_[i].state # "waiting"
       /\ di' # di => (di' = di + 1 \/ dpc' = "sleep")
       /\ (dpc = "arrive" /\ dpc' = "gate") => di' # di]_vars

\* C12 witness: a vehicle has moved by a whole step and stands between two
\* nodes, while another vehicle is waiting.
C12_Witness ==
    /\ dpc = "arrive"
    /\ vehicles_[di].position[1] \in {1, 3}
    /\ \E j \in DOMAIN vehicles_ : j # di /\ vehicles_[j].state = "waiting"

\* C13: a vehicle notifies the matcher vehicle_arrived(id) only when its
\* position equals the pickup coordinate passed to the most recent
\* assign_passenger for it, also after an empty route in the routing step
\* and when AssignPassenger interleaves with the drive loop's arrival test.
C13_ArrivedOnlyAtPickup ==
    dpc = "arr_notify"
        => /\ pending[vehicles_[di].id] # 0
           /\ vehicles_[di].position = passengers[pending[vehicles_[di].id]].start

\* C14: IncrementalMove is executed only on a vehicle with
\* 0 <= path_index < length(path), so the read path[path_index] is never
\* out of range, under any interleaving of the drive loop with
\* AssignPassenger and PassengerIntoVehicle.
C14_MoveIndexInRange ==
    [][(dpc = "gate" /\ vehicles_[di].state # "waiting" /\ DriveSteps)
           => /\ 0 <= vehicles_[di].path_index
              /\ vehicles_[di].path_index < Len(vehicles_[di].path)
              /\ dpc' # "terminated"]_vars

\* C15: snap on arrival: in a move step, when the distance d from the
\* position to next = path[path_index] is at most the step, the position
\* becomes exactly next and path_index increases by exactly one; when d is
\* greater than the step, path_index is unchanged.
C15_SnapOnArrival ==
    [][vehicles_' # vehicles_
           => LET veh == vehicles_[1]
                  next == veh.path[veh.path_index + 1]
                  d2 == DistSq(veh.position, next)
                  step2 == distance_per_cycle_ * distance_per_cycle_
              IN  /\ d2 <= step2 => /\ vehicles_'[1].position = next
                                    /\ vehicles_'[1].path_index = veh.path_index + 1
                  /\ d2 > step2 => /\ vehicles_'[1].path_index = veh.path_index
                                   /\ vehicles_'[1].position # next]_vars

\* C15 witness: a vehicle exactly one step away from the first point of its
\* path has snapped onto it, and has then made a step short of the second.
C15_Witness ==
    /\ Len(track) = 3
    /\ track[1] # track[2]
    /\ DistSq(track[1], track[2]) = distance_per_cycle_ * distance_per_cycle_
    /\ Len(vehicles_[1].path) = 2
    /\ track[2] = vehicles_[1].path[1]
    /\ track[3] # vehicles_[1].path[2]
    /\ vehicles_[1].path_index = 1

C17_NoNestedLocks ==
    /\ [](/\ dpc \in {"req_send", "arr_notify", "drop1", "drop2", "drop3"}
               => mtx_ = "free"
          /\ mtx_ = "drive" => dpc \in {"req_unlock", "drop_unlock"})
    /\ [][(Len(open_vehicles') > Len(open_vehicles) \/ Len(arrivals') > Len(arrivals)
              \/ (DriveSteps /\ dpc \in {"drop1", "drop2", "drop3"}))
             => mtx_ = "free" /\ mtx_' = "free"]_vars

\* C17 witness: DropOffPassenger has written its log record under the mutex,
\* has released it and is about to take the passenger out of the vehicle.
C17_Witness ==
    /\ dpc = "drop1"
    /\ mtx_ = "free"
    /\ vehicles_[di].passenger # 0
    /\ vehicles_[di].state = "driving_passenger"

\* C18: while a vehicle carries a passenger, the passenger's position equals
\* the vehicle's position, from the moment passenger_into_vehicle completes
\* until drop-off.
C18_PassengerFollowsVehicle ==
    \A i \in DOMAIN vehicles_ :
        (vehicles_[i].passenger # 0 /\ vehicles_[i].state = "driving_passenger")
            => passengers[vehicles_[i].passenger].position = vehicles_[i].position

\* The matcher knows vehicle id: queued, matched or in a callback.
KnownToMatcher(id) ==
    \/ \E k \in DOMAIN open_vehicles : open_vehicles[k] = id
    \/ pending[id] # 0
    \/ (mpc # "idle" /\ mv = id)

\* C19: a vehicle sends request_passenger to the matcher only in a tick
\* where its state is no_passenger_requested and its path is non-empty after
\* routing; its state is already no_passenger_queued when the matcher
\* receives the request; and it sends at most one request between two
\* consecutive returns to no_passenger_requested.
C19_RequestOncePerEpisode ==
    /\ [](dpc = "req_send"
              => /\ vehicles_[di].state = "no_passenger_queued"
                 /\ vehicles_[di].path # <<>>
                 /\ ~KnownToMatcher(vehicles_[di].id))
    /\ [][(dpc' = "req_send" /\ dpc # "req_send")
             => /\ dpc = "request" /\ di' = di
                /\ vehicles_[di].state = "no_passenger_requested"
                /\ vehicles_[di].path # <<>>
                /\ vehicles_'[di].state = "no_passenger_queued"]_vars
    /\ [][Len(open_vehicles') > Len(open_vehicles)
             => /\ dpc = "req_send" /\ dpc' # "req_send"
                /\ open_vehicles' = Append(open_vehicles, vehicles_[di].id)
                /\ vehicles_'[di].state = "no_passenger_queued"]_vars
    /\ [][\A i \in DOMAIN vehicles_ :
             (vehicles_[i].state = "no_passenger_requested"
                  /\ vehicles_'[i].state # "no_passenger_requested")
                 => dpc = "request" /\ dpc' = "req_send" /\ di = i]_vars

\* C19 witness: a vehicle that has completed a ride has sent its next request.
C19_Witness ==
    /\ dpc = "req_lock"
    /\ open_vehicles # <<>>
    /\ open_vehicles[Len(open_vehicles)] = vehicles_[di].id
    /\ vehicles_[di].state = "no_passenger_queued"
    /\ \E p \in 1 .. pool : passengers[p].status = "destroyed"

=============================================================================
